---- MODULE Spec2Model ----
(***************************************************************************)
(* MarkerBasedPredictor (promptolution/predictors/maker_based_predictor.py)*)
(*                                                                         *)
(* A predictor object is constructed once (__init__) and then used for any *)
(* number of _extract_preds calls.  Python strings are modelled as         *)
(* sequences of one-character strings; a list of strings is a sequence of  *)
(* such sequences.  Optional[List[str]] is a record [none, list].          *)
(***************************************************************************)
EXTENDS Integers, Sequences, FiniteSets, TLC

VARIABLES pc, ctor, classes, begin_marker, end_marker, extraction_description,
          preds, result, error, called

vars == <<pc, ctor, classes, begin_marker, end_marker, extraction_description,
          preds, result, error, called>>

fields == <<classes, begin_marker, end_marker, extraction_description>>

(* ------------------------------ bounds --------------------------------- *)
MaxPredLen == 3
MaxBatch == 2
MaxClasses == 2

(* ------------------------------ inputs --------------------------------- *)
\* "[" and "]" stand for the default markers "<final_answer>" and
\* "</final_answer>", "A" for a character of the answer or of the text around it
RawAlphabet == {"A", "[", "]"}
BeginMarkers == {<<"[">>}
EndMarkers == {<<"]">>}

StrsUpTo(S, n) == UNION {[1..k -> S] : k \in 0..n}

Count(s, c) == Cardinality({i \in 1..Len(s) : s[i] = c})

\* raw generations: any text with at most one begin and one end marker, in
\* either order (which of several occurrences the tag extraction takes is
\* left open by the specification)
RawOutputs ==
    {s \in StrsUpTo(RawAlphabet, MaxPredLen) : Count(s, "[") <= 1 /\ Count(s, "]") <= 1}
Batches == UNION {[1..k -> RawOutputs] : k \in 0..MaxBatch}

\* class labels offered to the constructor: empty, lowercase, uppercase, digit
ClassLabels == {<<>>, <<"a">>, <<"b">>, <<"A">>, <<"0">>}
ClassLists == UNION {[1..k -> ClassLabels] : k \in 0..MaxClasses}

None == [none |-> TRUE, list |-> <<>>]
Some(l) == [none |-> FALSE, list |-> l]
ClassArgs == {None} \cup {Some(l) : l \in ClassLists}

Range(s) == {s[i] : i \in 1..Len(s)}

(* --------------------------- str primitives ---------------------------- *)
IsUpperChar(c) == c \in {"A", "B"}
IsLowerChar(c) == c \in {"a", "b"}
IsCasedChar(c) == IsUpperChar(c) \/ IsLowerChar(c)

\* str.lower() on one character
LowerChar(c) == CASE c = "A" -> "a" [] c = "B" -> "b" [] OTHER -> c

\* str.lower()
LowerStr(s) == [i \in 1..Len(s) |-> LowerChar(s[i])]

\* str.islower(): at least one cased character and no uppercase character
IsLowerStr(s) ==
    /\ \E i \in 1..Len(s) : IsCasedChar(s[i])
    /\ \A i \in 1..Len(s) : ~IsUpperChar(s[i])

\* a validation written with any() instead of all()
ClassesValidAny(l) == \E i \in 1..Len(l) : IsLowerStr(l[i])

\* all([c.islower() for c in classes])
ClassesValid(l) == \A i \in 1..Len(l) : IsLowerStr(l[i])

(* ------------------------- extract_from_tag ---------------------------- *)
\* positions >= from at which marker m occurs in text
Occurrences(text, m, from) ==
    {p \in from..(Len(text) - Len(m) + 1) : SubSeq(text, p, p + Len(m) - 1) = m}

FirstOccurrence(text, m, from) ==
    LET occ == Occurrences(text, m, from)
    IN  IF occ = {} THEN 0 ELSE CHOOSE p \in occ : \A q \in occ : p <= q

\* text strictly between the first begin marker and the first subsequent
\* end marker; the empty string when either is missing
extract_from_tag(text, b, e) ==
    LET i == FirstOccurrence(text, b, 1)
    IN  IF i = 0 THEN <<>>
        ELSE LET j == FirstOccurrence(text, e, i + Len(b))
             IN  IF j = 0 THEN <<>> ELSE SubSeq(text, i + Len(b), j - 1)

(* --------------------------- description ------------------------------- *)
RECURSIVE Join(_)
\* ', '.join(classes)
Join(l) == IF l = <<>> THEN <<>>
           ELSE IF Len(l) = 1 THEN l[1]
           ELSE l[1] \o <<",", " ">> \o Join(Tail(l))

MarkerSentence(b, e) ==
    <<"The class label is extracted from the text that are between these markers: ">>
        \o b \o <<" and ">> \o e \o <<".">>

Description(cls, b, e) ==
    IF cls.none THEN MarkerSentence(b, e)
    ELSE <<"The task is to classify the texts into one of those classes: ">>
            \o Join(cls.list) \o <<".">> \o MarkerSentence(b, e)

(* ---------------------------- _extract_preds --------------------------- *)
\* an extraction that forgets .lower()
ExtractLabelNoLower(text, b, e) == extract_from_tag(text, b, e)

\* extract_from_tag(pred, self.begin_marker, self.end_marker).lower()
ExtractLabel(text, b, e) == LowerStr(extract_from_tag(text, b, e))

\* a fallback test that never fires
NeedsFallbackNever(cls, v) == FALSE

\* self.classes is not None and pred not in self.classes
NeedsFallback(cls, v) == ~cls.none /\ v \notin Range(cls.list)

\* self.classes[0]
Fallback(cls) == cls.list[1]

\* result.append(pred)
ResultAppend(acc, pred) == Append(acc, pred)

RECURSIVE ExtractLoop(_, _, _, _, _)
\* the for loop: the remaining items ps, the list built so far acc
ExtractLoop(cls, b, e, ps, acc) ==
    IF ps = <<>> THEN [error |-> "", result |-> acc]
    ELSE LET v == ExtractLabel(Head(ps), b, e)
         IN  IF NeedsFallback(cls, v)
             THEN IF cls.list = <<>>
                  THEN [error |-> "IndexError", result |-> <<>>]
                  ELSE ExtractLoop(cls, b, e, Tail(ps), ResultAppend(acc, Fallback(cls)))
             ELSE ExtractLoop(cls, b, e, Tail(ps), ResultAppend(acc, v))

(* ------------------------------ actions -------------------------------- *)
Init ==
    /\ pc = "new"
    /\ ctor = [classes |-> None, begin_marker |-> <<>>, end_marker |-> <<>>]
    /\ classes = None
    /\ begin_marker = <<>>
    /\ end_marker = <<>>
    /\ extraction_description = <<>>
    /\ preds = <<>>
    /\ result = <<>>
    /\ error = ""
    /\ called = FALSE

\* __init__(llm, classes, begin_marker, end_marker, config)
Construct(c, b, e) ==
    /\ pc = "new"
    /\ ctor' = [classes |-> c, begin_marker |-> b, end_marker |-> e]
    /\ classes' = c
    /\ begin_marker' = b
    /\ end_marker' = e
    /\ IF ~c.none /\ ~ClassesValid(c.list)
       THEN /\ pc' = "rejected"
            /\ error' = "AssertionError"
            /\ UNCHANGED extraction_description
       ELSE /\ pc' = "ready"
            /\ error' = ""
            /\ extraction_description' = Description(c, b, e)
    /\ UNCHANGED <<preds, result, called>>

\* a call whose fallback consumes the class list (self.classes.pop(0))
ExtractPredsPop(p) ==
    /\ pc = "ready"
    /\ preds' = p
    /\ \E out \in {ExtractLoop(classes, begin_marker, end_marker, p, <<>>)} :
           /\ error' = out.error
           /\ result' = out.result
           /\ pc' = IF out.error = "" THEN "returned" ELSE "raised"
    /\ classes' = IF /\ classes.list # <<>>
                     /\ \E i \in 1..Len(p) :
                           NeedsFallback(classes,
                                         ExtractLabel(p[i], begin_marker, end_marker))
                  THEN Some(Tail(classes.list))
                  ELSE classes
    /\ UNCHANGED <<ctor, begin_marker, end_marker, extraction_description, called>>

\* _extract_preds(preds)
ExtractPreds(p) ==
    /\ pc = "ready"
    /\ preds' = p
    /\ \E out \in {ExtractLoop(classes, begin_marker, end_marker, p, <<>>)} :
           /\ error' = out.error
           /\ result' = out.result
           /\ pc' = IF out.error = "" THEN "returned" ELSE "raised"
    /\ UNCHANGED <<ctor, fields, called>>

\* the caller has taken the returned list (or caught the exception); the
\* call's locals are gone and the predictor can be called again
Finish ==
    /\ pc \in {"returned", "raised"}
    /\ pc' = "ready"
    /\ preds' = <<>>
    /\ result' = <<>>
    /\ error' = ""
    /\ called' = TRUE
    /\ UNCHANGED <<ctor, fields>>

\* the guards are repeated in front of the quantifiers so that the inputs are
\* enumerated only in states where the operation can be called
Next ==
    \/ pc = "new" /\ \E c \in ClassArgs, b \in BeginMarkers, e \in EndMarkers :
                        Construct(c, b, e)
    \/ pc = "ready" /\ \E p \in Batches : ExtractPreds(p)
    \/ Finish

Spec == Init /\ [][Next]_vars

(* ---------------------------- properties ------------------------------- *)
Constructed == pc \in {"ready", "returned", "raised"}
CallEnded == pc \in {"returned", "raised"}
Closed == ~classes.none

\* the text between the markers of item i, lowercased
Extracted(i) == LowerStr(extract_from_tag(preds[i], begin_marker, end_marker))

\* a marker does not occur in item i
MarkerMissing(i) ==
    \/ Occurrences(preds[i], begin_marker, 1) = {}
    \/ Occurrences(preds[i], end_marker, 1) = {}

\* C1: with a class set configured, every label of a returned list is a
\* member of the class set
C1_ClosedVocabulary ==
    (pc = "returned" /\ Closed) =>
        \A i \in 1..Len(result) : result[i] \in Range(classes.list)

\* a returned list in closed mode in which some item's text was not a class
C1_Witness ==
    /\ pc = "returned" /\ Closed
    /\ Len(result) >= 2
    /\ \E i \in 1..Len(preds) : Extracted(i) \notin Range(classes.list)
    /\ \E i \in 1..Len(preds) : Extracted(i) \in Range(classes.list)

\* C2: every call returns a list as long as its batch, and the label at each
\* position is the label the one-item batch of that item yields
C2_PositionalCorrespondence ==
    CallEnded =>
        /\ pc = "returned"
        /\ Len(result) = Len(preds)
        /\ \A i \in 1..Len(preds) :
              LET one == ExtractLoop(classes, begin_marker, end_marker, <<preds[i]>>, <<>>)
              IN  one.error = "" /\ one.result = <<result[i]>>

\* C3: a call on a constructed predictor never raises
C3_NeverRaises == pc # "raised"

\* C4: a class set with an entry that is not its own lowercased form is
\* rejected by the constructor, and no call is ever made on it
C4_NonLowercaseRejected ==
    (/\ pc # "new"
     /\ ~ctor.classes.none
     /\ \E i \in 1..Len(ctor.classes.list) :
           ctor.classes.list[i] # LowerStr(ctor.classes.list[i]))
    => (pc = "rejected" /\ error = "AssertionError" /\ preds = <<>> /\ ~called)

\* a rejected construction whose class set mixes a lowercase and an
\* uppercase entry
C4_Witness ==
    /\ pc = "rejected"
    /\ \E i, j \in 1..Len(ctor.classes.list) :
          /\ ctor.classes.list[i] # LowerStr(ctor.classes.list[i])
          /\ ctor.classes.list[j] = LowerStr(ctor.classes.list[j])
          /\ ctor.classes.list[j] # <<>>

\* C5: constructing with an empty class list is rejected by the constructor
C5_EmptyClassSetRejected ==
    (pc # "new" /\ ~ctor.classes.none /\ ctor.classes.list = <<>>) => pc = "rejected"

\* C6: in closed mode every item gets a label: its lowercased extracted text
\* when that is a class, the first class otherwise
C6_FallbackRule ==
    (CallEnded /\ Closed) =>
        /\ pc = "returned"
        /\ Len(result) = Len(preds)
        /\ \A i \in 1..Len(preds) :
              IF Extracted(i) \in Range(classes.list)
              THEN result[i] = Extracted(i)
              ELSE result[i] = classes.list[1]

\* C7: in open mode every call returns, and every label is the lowercased
\* extracted text, the empty string included
C7_OpenModeVerbatim ==
    (CallEnded /\ ~Closed) =>
        /\ pc = "returned"
        /\ Len(result) = Len(preds)
        /\ \A i \in 1..Len(preds) : result[i] = Extracted(i)

\* an open-mode call that returned an empty label and a label that
\* lowercasing changed
C7_Witness ==
    /\ pc = "returned" /\ ~Closed
    /\ \E i \in 1..Len(result) : result[i] = <<>>
    /\ \E i \in 1..Len(result) :
          /\ result[i] # <<>>
          /\ result[i] # extract_from_tag(preds[i], begin_marker, end_marker)

\* C8: in closed mode an item that lacks a marker extracts to the empty
\* string, which is no class, and gets the first class as its label
C8_ExtractionMissFallsBack ==
    (CallEnded /\ Closed) =>
        \A i \in 1..Len(preds) :
            MarkerMissing(i) =>
                /\ extract_from_tag(preds[i], begin_marker, end_marker) = <<>>
                /\ <<>> \notin Range(classes.list)
                /\ pc = "returned"
                /\ result[i] = classes.list[1]

C10_ValidClassSetAccepted ==
    (/\ pc # "new"
     /\ ~ctor.classes.none
     /\ ctor.classes.list # <<>>
     /\ \A i \in 1..Len(ctor.classes.list) :
           ctor.classes.list[i] = LowerStr(ctor.classes.list[i]))
    => pc # "rejected"

====
